---- MODULE Spec2Model ----
(***************************************************************************)
(* QNN quantization config: get_qnn_qdq_config and the type-conversion     *)
(* resolver _add_qtype_converts of                                         *)
(* onnxruntime/python/tools/quantization/execution_providers/qnn/          *)
(* quant_config.py.                                                        *)
(*                                                                         *)
(* A Python dict is a function whose DOMAIN is the set of keys present; an *)
(* insertion-ordered dict that the code iterates is a record               *)
(* [keys: sequence of keys in insertion order, map: the function].         *)
(* A raise is the state pc = "raised" with the exception in err.           *)
(***************************************************************************)
EXTENDS Integers, Sequences, FiniteSets, TLC

\* ------------------------------------------------------------------ bounds
\* Largest number of tensors the caller's init_overrides table names.
MaxOverrides == 2
\* Largest number of records in one init_overrides entry (more than one
\* record is a per-channel entry).
MaxRecords == 2

\* ------------------------------------------------------- program constants
Q16_TYPES == {"QInt16", "QUInt16"}
Q8_TYPES == {"QInt8", "QUInt8"}

\* ----------------------------------------------------------------- the graph
\* model.graph.node, in order.  IN is the graph input, W, S and B are
\* initializers, Z is the graph output.
GraphNodes ==
    << [name |-> "A", op_type |-> "MatMul",
        input |-> <<"IN", "W">>, output |-> <<"X">>],
       [name |-> "P", op_type |-> "Sigmoid",
        input |-> <<"X">>, output |-> <<"YP">>],
       [name |-> "Q", op_type |-> "Tanh",
        input |-> <<"X">>, output |-> <<"YQ">>],
       [name |-> "L", op_type |-> "LayerNormalization",
        input |-> <<"YP", "S", "B">>, output |-> <<"Z">>] >>

Range(s) == {s[i] : i \in DOMAIN s}

NodeNames == {GraphNodes[i].name : i \in DOMAIN GraphNodes}

\* model.graph.initializer, by name
name_to_initializer ==
    [t \in {"W", "S", "B"} |-> [data_type |-> "FLOAT"]]

\* model.graph.value_info, updated with graph.output and graph.input
value_infos ==
    [t \in {"IN", "X", "YP", "YQ", "Z"} |-> [elem_type |-> "FLOAT"]]

Tensors == DOMAIN name_to_initializer \cup DOMAIN value_infos

\* producers[output_name] = node; a tensor no node outputs is no key
producers ==
    [t \in UNION {Range(GraphNodes[i].output) : i \in DOMAIN GraphNodes} |->
        GraphNodes[CHOOSE i \in DOMAIN GraphNodes : t \in Range(GraphNodes[i].output)]]

\* consumers[input_name] = the nodes reading it (their names, as line 223
\* reads them)
consumers ==
    [t \in UNION {Range(GraphNodes[i].input) \ {""} : i \in DOMAIN GraphNodes} |->
        {GraphNodes[i].name : i \in {j \in DOMAIN GraphNodes : t \in Range(GraphNodes[j].input)}}]

_is_tensor_quantizable(tensor_name) ==
    IF tensor_name \in DOMAIN name_to_initializer
    THEN name_to_initializer[tensor_name].data_type = "FLOAT"
    ELSE /\ tensor_name \in DOMAIN value_infos
         /\ value_infos[tensor_name].elem_type = "FLOAT"

\* ------------------------------------------------------------- dict helpers
EmptyDict == [keys |-> <<>>, map |-> <<>>]

DictPut(d, k, v) ==
    [keys |-> IF k \in DOMAIN d.map THEN d.keys ELSE Append(d.keys, k),
     map |-> [x \in DOMAIN d.map \cup {k} |-> IF x = k THEN v ELSE d.map[x]]]

RecPut(r, k, v) == [x \in DOMAIN r \cup {k} |-> IF x = k THEN v ELSE r[x]]

\* d[k].get(f, default)
RecGet(r, f, default) == IF f \in DOMAIN r THEN r[f] ELSE default

\* tensor_name not in tensor_quant_overrides or not tensor_quant_overrides[tensor_name]
Missing(tqo, tensor_name) ==
    \/ tensor_name \notin DOMAIN tqo.map
    \/ Len(tqo.map[tensor_name]) = 0

\* the table with record 0 of tensor_name replaced
SetFirst(tqo, tensor_name, rec) ==
    DictPut(tqo, tensor_name, [tqo.map[tensor_name] EXCEPT ![1] = rec])

Ok(tqo) == [err |-> "ok", tqo |-> tqo]
Raise(e, tqo) == [err |-> e, tqo |-> tqo]

\* ------------------------------------------------------------ OverrideStore
\* the value returned; line 43 raises before it when the entry has several
\* records (see OutputQtypeRaises)
_get_output_activation_qtype(tensor_name, tqo, act) ==
    IF tensor_name \notin DOMAIN tqo.map
    THEN act
    ELSE RecGet(tqo.map[tensor_name][1], "quant_type", act)

OutputQtypeRaises(tensor_name, tqo) ==
    /\ tensor_name \in DOMAIN tqo.map
    /\ Len(tqo.map[tensor_name]) > 1

_set_weight_type(tqo, tensor_name, weight_type_, weight_symmetric) ==
    LET t1 == IF Missing(tqo, tensor_name)
              THEN DictPut(tqo, tensor_name, << <<>> >>)
              ELSE tqo
        overrides == t1.map[tensor_name][1]
    IN  IF Len(t1.map[tensor_name]) > 1
        THEN Raise("ValueError: per-tensor", t1)
        ELSE IF "quant_type" \notin DOMAIN overrides /\ "symmetric" \notin DOMAIN overrides
             THEN Ok(SetFirst(t1, tensor_name,
                        RecPut(RecPut(overrides, "quant_type", weight_type_),
                               "symmetric", weight_symmetric)))
             ELSE Ok(t1)

_set_scale_zero_point(tqo, tensor_name, quant_type, scale, zero_point) ==
    LET t1 == IF Missing(tqo, tensor_name)
              THEN DictPut(tqo, tensor_name, << <<>> >>)
              ELSE tqo
        o0 == t1.map[tensor_name][1]
        o1 == IF "quant_type" \notin DOMAIN o0
              THEN RecPut(o0, "quant_type", quant_type)
              ELSE o0
        t2 == SetFirst(t1, tensor_name, o1)
    IN  IF Len(t1.map[tensor_name]) > 1
        THEN Raise("ValueError: per-tensor", t1)
        ELSE IF o1["quant_type"] /= quant_type
             THEN Raise("AssertionError", t2)
             ELSE IF DOMAIN o1 \cap {"scale", "zero_point", "symmetric",
                                     "reduce_range", "rmin", "rmax"} /= {}
                  THEN Ok(t2)   \* warning printed, fields kept
                  ELSE Ok(SetFirst(t2, tensor_name,
                             RecPut(RecPut(o1, "zero_point", zero_point),
                                    "scale", scale)))

_add_to_convert_recv_nodes(tqo, tensor_name, prod_type, consumer_type, consumer_names) ==
    LET t1 == IF Missing(tqo, tensor_name)
              THEN DictPut(tqo, tensor_name, << [quant_type |-> prod_type] >>)
              ELSE tqo
        o0 == t1.map[tensor_name][1]
        o1 == IF "convert" \notin DOMAIN o0
              THEN RecPut(o0, "convert", [quant_type |-> consumer_type])
              ELSE o0
        c1 == o1["convert"]
        c2 == IF "recv_nodes" \notin DOMAIN c1
              THEN RecPut(c1, "recv_nodes", {})
              ELSE c1
        c3 == RecPut(c2, "recv_nodes", c2["recv_nodes"] \cup consumer_names)
    IN  IF consumer_type /= c1["quant_type"]
        THEN Raise("AssertionError", SetFirst(t1, tensor_name, o1))
        ELSE Ok(SetFirst(t1, tensor_name, RecPut(o1, "convert", c3)))

_check_not_in_convert_recv_nodes(tqo, tensor_name, consumer_names) ==
    IF Missing(tqo, tensor_name)
    THEN TRUE
    ELSE LET overrides == tqo.map[tensor_name][1]
         IN  IF "convert" \notin DOMAIN overrides
             THEN TRUE
             ELSE IF "recv_nodes" \notin DOMAIN overrides["convert"]
                  THEN TRUE
                  ELSE overrides["convert"]["recv_nodes"] \cap consumer_names = {}

_get_input_activation_qtype(tqo, input_name, node_name, act) ==
    IF Missing(tqo, input_name)
    THEN act
    ELSE LET overrides == tqo.map[input_name][1]
             producer_type == RecGet(overrides, "quant_type", act)
         IN  IF "convert" \notin DOMAIN overrides
             THEN producer_type
             ELSE IF "recv_nodes" \notin DOMAIN overrides["convert"]
                  THEN overrides["convert"]["quant_type"]
                  ELSE IF node_name \in overrides["convert"]["recv_nodes"]
                       THEN overrides["convert"]["quant_type"]
                       ELSE producer_type

\* ------------------------------------------------------ TypeRequestResolver
\* the dataclass; None is "None" for the type and <<>> for the tuple
TensorTypeRequest(producer_type, consumers_) ==
    [producer_type |-> producer_type, consumers |-> consumers_]

\* mutant of RequestableInput: the initializer test of line 180 left out
RequestableInput_WithInitializers(input_name) ==
    /\ input_name /= ""
    /\ _is_tensor_quantizable(input_name)

\* lines 178-182: the inputs a consumer-side request is recorded for
RequestableInput(input_name) ==
    /\ input_name /= ""
    /\ input_name \notin DOMAIN name_to_initializer
    /\ _is_tensor_quantizable(input_name)

\* mutant of ConsumerTypeConflict: the first type recorded wins silently
ConsumerTypeConflict_FirstWins(consumers_, quant_type) == FALSE

\* line 189: the consumers already recorded asked for another type
ConsumerTypeConflict(consumers_, quant_type) == consumers_[1] /= quant_type

\* lines 177-192: the consumer side of one overridden output, from input i on
RECURSIVE AddConsumerRequests(_, _, _, _)
AddConsumerRequests(tr, node, quant_type, i) ==
    IF i > Len(node.input)
    THEN [err |-> "ok", tr |-> tr]
    ELSE LET input_name == node.input[i]
         IN  IF RequestableInput(input_name)
             THEN LET tr1 == IF input_name \notin DOMAIN tr.map
                             THEN DictPut(tr, input_name, TensorTypeRequest("None", <<>>))
                             ELSE tr
                      r1 == tr1.map[input_name]
                      r2 == IF r1.consumers = <<>>
                            THEN [r1 EXCEPT !.consumers = <<quant_type, {}>>]
                            ELSE r1
                      r3 == [r2 EXCEPT !.consumers =
                                <<r2.consumers[1], r2.consumers[2] \cup {node.name}>>]
                  IN  IF ConsumerTypeConflict(r2.consumers, quant_type)
                      THEN [err |-> "ValueError: consumers requesting different types",
                            tr |-> DictPut(tr1, input_name, r2)]
                      ELSE AddConsumerRequests(DictPut(tr1, input_name, r3),
                                               node, quant_type, i + 1)
             ELSE AddConsumerRequests(tr, node, quant_type, i + 1)

\* lines 166-174: the producer side of one overridden tensor
AddProducerRequest(tr, tensor_name, quant_type) ==
    IF tensor_name \notin DOMAIN tr.map
    THEN [err |-> "ok", tr |-> DictPut(tr, tensor_name, TensorTypeRequest(quant_type, <<>>))]
    ELSE IF tr.map[tensor_name].producer_type /= "None"
         THEN [err |-> "ValueError: multiple types", tr |-> tr]
         ELSE [err |-> "ok",
               tr |-> DictPut(tr, tensor_name,
                              [tr.map[tensor_name] EXCEPT !.producer_type = quant_type])]

\* lines 153-160: the entries the scan passes over
ScanSkips(tensor_name, override_list) ==
    \/ ~_is_tensor_quantizable(tensor_name)
    \/ tensor_name \in DOMAIN name_to_initializer
    \/ Len(override_list) = 0
    \/ Len(override_list) > 1

\* one iteration of the loop of line 152
ScanOne(tr, tensor_name, override_list, act) ==
    IF ScanSkips(tensor_name, override_list)
    THEN [err |-> "ok", tr |-> tr]
    ELSE LET override == override_list[1]
             quant_type == RecGet(override, "quant_type", act)
         IN  IF tensor_name \notin DOMAIN producers
             THEN [err |-> "KeyError", tr |-> tr]
             ELSE IF quant_type /= act /\ "convert" \notin DOMAIN override
                  THEN LET p == AddProducerRequest(tr, tensor_name, quant_type)
                       IN  IF p.err /= "ok"
                           THEN p
                           ELSE AddConsumerRequests(p.tr, producers[tensor_name],
                                                    quant_type, 1)
                  ELSE [err |-> "ok", tr |-> tr]

\* mutant of ProducerOnlyConvert: the convert restricted to an empty
\* receiver set, as if added through _add_to_convert_recv_nodes
ProducerOnlyConvert_Restricted(tqo, tensor_name, act) ==
    SetFirst(tqo, tensor_name,
             RecPut(tqo.map[tensor_name][1], "convert",
                    [quant_type |-> act, recv_nodes |-> {}]))

\* line 198: convert back to the default activation type, for every consumer
ProducerOnlyConvert(tqo, tensor_name, act) ==
    SetFirst(tqo, tensor_name,
             RecPut(tqo.map[tensor_name][1], "convert", [quant_type |-> act]))

\* mutant of ConsumersForOriginalType: the requesting consumers not taken out
ConsumersForOriginalType_All(all_consumers, requesting) == all_consumers

\* line 224
ConsumersForOriginalType(all_consumers, requesting) == all_consumers \ requesting

\* one iteration of the loop of line 195
ProcessOne(tqo, tensor_name, type_req, act) ==
    IF type_req.producer_type /= "None" /\ type_req.consumers = <<>>
    THEN Ok(ProducerOnlyConvert(tqo, tensor_name, act))
    ELSE IF type_req.producer_type = "None"
         THEN LET prod_type == _get_output_activation_qtype(tensor_name, tqo, act)
                  consumer_type == type_req.consumers[1]
              IN  IF OutputQtypeRaises(tensor_name, tqo)
                  THEN Raise("ValueError: per-tensor", tqo)
                  ELSE IF prod_type /= consumer_type
                       THEN _add_to_convert_recv_nodes(tqo, tensor_name, prod_type,
                                consumer_type, type_req.consumers[2])
                       ELSE IF ~_check_not_in_convert_recv_nodes(tqo, tensor_name,
                                    type_req.consumers[2])
                            THEN Raise("ValueError: converts the type for consumers", tqo)
                            ELSE Ok(tqo)
         ELSE LET prod_type == type_req.producer_type
                  consumer_type == type_req.consumers[1]
                  all_consumers == consumers[tensor_name]
                  consumers_for_original_type ==
                      ConsumersForOriginalType(all_consumers, type_req.consumers[2])
              IN  IF prod_type /= consumer_type
                  THEN _add_to_convert_recv_nodes(tqo, tensor_name, prod_type,
                           consumer_type, type_req.consumers[2])
                  ELSE IF consumers_for_original_type = {}
                       THEN IF "convert" \in DOMAIN tqo.map[tensor_name][1]
                            THEN Raise("AssertionError", tqo)
                            ELSE Ok(tqo)
                       ELSE _add_to_convert_recv_nodes(tqo, tensor_name, prod_type,
                                act, consumers_for_original_type)

\* ----------------------------------------------------------- OperatorPolicy
\* lines 287-296: the scan of a MatMul's inputs, from input i on
RECURSIVE MatMulInputs(_, _, _, _, _)
MatMulInputs(tqo, node, act, i, acc) ==
    IF i > Len(node.input)
    THEN acc
    ELSE LET input_name == node.input[i]
         IN  IF input_name \notin DOMAIN name_to_initializer
             THEN IF _get_input_activation_qtype(tqo, input_name, node.name, act) \in Q16_TYPES
                  THEN MatMulInputs(tqo, node, act, i + 1,
                                    [acc EXCEPT !.input_16bit_act = input_name])
                  ELSE MatMulInputs(tqo, node, act, i + 1, acc)
             ELSE MatMulInputs(tqo, node, act, i + 1,
                               [acc EXCEPT !.input_wgt = input_name])

\* a policy rule's result: the table, or the raise, and the tensors whose
\* entry the rule went to set
Touch(r, names) == [err |-> r.err, tqo |-> r.tqo, touched |-> names]

\* lines 284-300
MatMulPolicy(tqo, node, act, wt) ==
    LET weight_symmetric == wt = "QInt8"
        found == MatMulInputs(tqo, node, act, 1,
                              [input_16bit_act |-> "", input_wgt |-> ""])
    IN  IF found.input_16bit_act /= "" /\ found.input_wgt /= ""
        THEN Touch(_set_weight_type(tqo, found.input_wgt, wt, weight_symmetric),
                   {found.input_wgt})
        ELSE Touch(Ok(tqo), {})

\* mutant of LayerNormWeightInputs: the bias input included
LayerNormWeightInputs_WithBias == 2 + 1

\* line 314: range(2), the inputs the rule goes through
LayerNormWeightInputs == 2

\* lines 314-317: for i in range(n), from input i on (i counts from 1 here)
RECURSIVE LayerNormWeights(_, _, _, _, _)
LayerNormWeights(r, node, wt, i, n) ==
    IF i > n \/ r.err /= "ok"
    THEN r
    ELSE LET input_name == node.input[i]
         IN  IF input_name \in DOMAIN name_to_initializer
             THEN LayerNormWeights(
                      Touch(_set_weight_type(r.tqo, input_name, wt, wt = "QInt8"),
                            r.touched \cup {input_name}),
                      node, wt, i + 1, n)
             ELSE LayerNormWeights(r, node, wt, i + 1, n)

\* lines 301-317
LayerNormPolicy(tqo, node, act, wt) ==
    LET has_q16_activation ==
            \E i \in DOMAIN node.input :
                /\ node.input[i] \notin DOMAIN name_to_initializer
                /\ _get_input_activation_qtype(tqo, node.input[i], node.name, act)
                       \in Q16_TYPES
    IN  IF has_q16_activation
        THEN LayerNormWeights(Touch(Ok(tqo), {}), node, wt, 1, LayerNormWeightInputs)
        ELSE Touch(Ok(tqo), {})

\* mutant of SigmoidQUInt16Pin: the QInt16 branch's scale
SigmoidQUInt16Pin_Signed == [scale |-> <<1, 32768>>, zero_point |-> 0]

\* lines 326-327: the pin of a QUInt16 Sigmoid output; a scale is the
\* fraction <<numerator, denominator>>
SigmoidQUInt16Pin == [scale |-> <<1, 65536>>, zero_point |-> 0]

\* lines 318-336
SigmoidPolicy(tqo, node, act) ==
    LET output_type == _get_output_activation_qtype(node.output[1], tqo, act)
    IN  IF OutputQtypeRaises(node.output[1], tqo)
        THEN Touch(Raise("ValueError: per-tensor", tqo), {})
        ELSE IF output_type = "QUInt16"
             THEN Touch(_set_scale_zero_point(tqo, node.output[1], output_type,
                                              SigmoidQUInt16Pin.scale,
                                              SigmoidQUInt16Pin.zero_point),
                        {node.output[1]})
             ELSE IF output_type = "QInt16"
                  THEN Touch(_set_scale_zero_point(tqo, node.output[1], output_type,
                                                   <<1, 32768>>, 0),
                             {node.output[1]})
                  ELSE Touch(Ok(tqo), {})

\* lines 337-355
TanhPolicy(tqo, node, act) ==
    LET output_type == _get_output_activation_qtype(node.output[1], tqo, act)
    IN  IF OutputQtypeRaises(node.output[1], tqo)
        THEN Touch(Raise("ValueError: per-tensor", tqo), {})
        ELSE IF output_type = "QUInt16"
             THEN Touch(_set_scale_zero_point(tqo, node.output[1], output_type,
                                              <<1, 32768>>, 32768),
                        {node.output[1]})
             ELSE IF output_type = "QInt16"
                  THEN Touch(_set_scale_zero_point(tqo, node.output[1], output_type,
                                                   <<1, 32768>>, 0),
                             {node.output[1]})
                  ELSE Touch(Ok(tqo), {})

\* ------------------------------------------------------------------- state
VARIABLES
    activation_type,         \* argument
    weight_type,             \* argument
    add_qtype_converts,      \* argument
    init_overrides,          \* argument
    tensor_quant_overrides,  \* the table being resolved (line 276)
    type_requests,           \* _add_qtype_converts' local dict
    pc,                      \* "scan", "process", "policy", "done", "raised"
    idx,                     \* position of the loop pc names
    err,                     \* the exception raised, "ok" when none
    policy_touched           \* tensors a policy rule went to set

vars == <<activation_type, weight_type, add_qtype_converts, init_overrides,
          tensor_quant_overrides, type_requests, pc, idx, err, policy_touched>>

args == <<activation_type, weight_type, add_qtype_converts, init_overrides>>

\* ------------------------------------------------------------------ inputs
ActivationTypes == {"QUInt8", "QUInt16"}
WeightTypes == {"QUInt8", "QInt8", "QUInt16"}
OverrideTypes == {"QUInt16", "QInt16"}

ConsumersOf(t) == IF t \in DOMAIN consumers THEN consumers[t] ELSE {}

\* the single records a caller gives an activation tensor
ActivationRecords(t) ==
    {<<>>}
    \cup {[quant_type |-> q] : q \in OverrideTypes}
    \cup {[quant_type |-> q, convert |-> [quant_type |-> c]] :
            q \in OverrideTypes, c \in OverrideTypes}
    \cup {[quant_type |-> q, convert |-> [quant_type |-> c, recv_nodes |-> r]] :
            q \in OverrideTypes, c \in OverrideTypes,
            r \in (SUBSET ConsumersOf(t)) \ {{}}}

\* the single records a caller gives an initializer
WeightRecords == {<<>>, [quant_type |-> "QInt8"], [symmetric |-> TRUE]}

\* per-channel entries: the same record for each of n channels
PerChannel(recs) == {[i \in 1..n |-> r] : n \in 2..MaxRecords, r \in recs}

EntriesOf(t) ==
    IF t \in DOMAIN name_to_initializer
    THEN {<<r>> : r \in WeightRecords} \cup PerChannel({[quant_type |-> "QInt8"]})
    ELSE {<<r>> : r \in ActivationRecords(t)}
         \cup PerChannel({[quant_type |-> q] : q \in OverrideTypes})

\* the caller's tables: up to MaxOverrides tensors, in any insertion order
RECURSIVE TablesFrom(_, _)
TablesFrom(d, n) ==
    {d} \cup
    IF n = 0
    THEN {}
    ELSE UNION {UNION {TablesFrom(DictPut(d, t, e), n - 1) : e \in EntriesOf(t)} :
                  t \in Tensors \ DOMAIN d.map}

InitTables == TablesFrom(EmptyDict, MaxOverrides)

\* --------------------------------------------------------- get_qnn_qdq_config
\* lines 276-281: the copy of the caller's table, and whether the resolver runs
Init ==
    /\ activation_type \in ActivationTypes
    /\ weight_type \in WeightTypes
    /\ add_qtype_converts \in BOOLEAN
    /\ init_overrides \in InitTables
    /\ tensor_quant_overrides = init_overrides
    /\ type_requests = EmptyDict
    /\ pc = IF Len(init_overrides.keys) > 0 /\ add_qtype_converts
            THEN "scan"
            ELSE "policy"
    /\ idx = 1
    /\ err = "ok"
    /\ policy_touched = {}

\* the scan loop of lines 152-192, one override entry a step
ScanOverride ==
    /\ pc = "scan"
    /\ LET tensor_name == tensor_quant_overrides.keys[idx]
           r == ScanOne(type_requests, tensor_name,
                        tensor_quant_overrides.map[tensor_name], activation_type)
       IN  /\ type_requests' = r.tr
           /\ err' = r.err
           /\ IF r.err /= "ok"
              THEN pc' = "raised" /\ idx' = idx
              ELSE IF idx < Len(tensor_quant_overrides.keys)
                   THEN pc' = "scan" /\ idx' = idx + 1
                   ELSE /\ pc' = IF Len(r.tr.keys) > 0 THEN "process" ELSE "policy"
                        /\ idx' = 1
    /\ UNCHANGED <<args, tensor_quant_overrides, policy_touched>>

\* the loop of lines 195-233, one type request a step
ProcessRequest ==
    /\ pc = "process"
    /\ LET tensor_name == type_requests.keys[idx]
           r == ProcessOne(tensor_quant_overrides, tensor_name,
                           type_requests.map[tensor_name], activation_type)
       IN  /\ tensor_quant_overrides' = r.tqo
           /\ err' = r.err
           /\ IF r.err /= "ok"
              THEN pc' = "raised" /\ idx' = idx
              ELSE IF idx < Len(type_requests.keys)
                   THEN pc' = "process" /\ idx' = idx + 1
                   ELSE pc' = "policy" /\ idx' = 1
    /\ UNCHANGED <<args, type_requests, policy_touched>>

\* one iteration of the loop of line 283, and the return of line 367 after
\* the last
PolicyStep(r) ==
    /\ tensor_quant_overrides' = r.tqo
    /\ policy_touched' = policy_touched \cup r.touched
    /\ err' = r.err
    /\ IF r.err /= "ok"
       THEN pc' = "raised" /\ idx' = idx
       ELSE IF idx < Len(GraphNodes)
            THEN pc' = "policy" /\ idx' = idx + 1
            ELSE pc' = "done" /\ idx' = idx
    /\ UNCHANGED <<args, type_requests>>

PolicyMatMul ==
    /\ pc = "policy"
    /\ GraphNodes[idx].op_type = "MatMul"
    /\ PolicyStep(IF weight_type \in Q8_TYPES
                  THEN MatMulPolicy(tensor_quant_overrides, GraphNodes[idx],
                                    activation_type, weight_type)
                  ELSE Touch(Ok(tensor_quant_overrides), {}))

PolicyLayerNorm ==
    /\ pc = "policy"
    /\ GraphNodes[idx].op_type = "LayerNormalization"
    /\ PolicyStep(IF weight_type \in Q8_TYPES
                  THEN LayerNormPolicy(tensor_quant_overrides, GraphNodes[idx],
                                       activation_type, weight_type)
                  ELSE Touch(Ok(tensor_quant_overrides), {}))

PolicySigmoid ==
    /\ pc = "policy"
    /\ GraphNodes[idx].op_type = "Sigmoid"
    /\ PolicyStep(SigmoidPolicy(tensor_quant_overrides, GraphNodes[idx],
                                activation_type))

PolicyTanh ==
    /\ pc = "policy"
    /\ GraphNodes[idx].op_type = "Tanh"
    /\ PolicyStep(TanhPolicy(tensor_quant_overrides, GraphNodes[idx],
                             activation_type))

Next ==
    \/ ScanOverride
    \/ ProcessRequest
    \/ PolicyMatMul
    \/ PolicyLayerNorm
    \/ PolicySigmoid
    \/ PolicyTanh

Spec == Init /\ [][Next]_vars

\* ================================================================== claims
\* vocabulary: what the claims call things, read off the caller's arguments

Returned == pc = "done"

Resolved(t) == tensor_quant_overrides.map[t][1]

InitQtype(t) == RecGet(init_overrides.map[t][1], "quant_type", activation_type)

\* t is a quantizable non-parameter tensor whose single override record has a
\* type other than the default activation type and no convert directive
ProducerSide(t) ==
    /\ t \in DOMAIN init_overrides.map
    /\ t \in DOMAIN value_infos
    /\ t \notin DOMAIN name_to_initializer
    /\ Len(init_overrides.map[t]) = 1
    /\ InitQtype(t) /= activation_type
    /\ "convert" \notin DOMAIN init_overrides.map[t][1]

\* the consumer-side requests for tensor x: <<operation name, type>> for each
\* operation reading x that has a producer-side output
ConsumerRequests(x) ==
    IF x \in DOMAIN value_infos /\ x \notin DOMAIN name_to_initializer
    THEN {<<GraphNodes[i].name, InitQtype(o)>> :
            <<i, o>> \in {<<j, t>> \in (DOMAIN GraphNodes) \X Tensors :
                            /\ t \in Range(GraphNodes[j].output)
                            /\ x \in Range(GraphNodes[j].input)
                            /\ ProducerSide(t)}}
    ELSE {}

RequestingNodes(x) == {req[1] : req \in ConsumerRequests(x)}

\* two operations ask for tensor x at two different types
ConflictingRequests(x) ==
    \E r1 \in ConsumerRequests(x), r2 \in ConsumerRequests(x) :
        r1[1] /= r2[1] /\ r1[2] /= r2[2]

\* C1 (as claimed): when get_qnn_qdq_config returns with type-conversion
\* resolution enabled, every consumer-side request (x consumed at type T by
\* operation N) is honoured: the effective type of x as seen by N is T.
C1_NoRequestContradicted ==
    (Returned /\ add_qtype_converts) =>
        \A x \in Tensors : \A req \in ConsumerRequests(x) :
            _get_input_activation_qtype(tensor_quant_overrides, x, req[1],
                                        activation_type) = req[2]

\* C2: a producer-side tensor (type T other than the default, no convert) that
\* no operation requests ends with convert = {quant_type: default activation
\* type}, without recv_nodes, and keeps quant_type T.
C2_ProducerOnlyConvertsToDefault ==
    (Returned /\ add_qtype_converts) =>
        \A t \in Tensors :
            (ProducerSide(t) /\ ConsumerRequests(t) = {}) =>
                /\ Len(tensor_quant_overrides.map[t]) = 1
                /\ "convert" \in DOMAIN Resolved(t)
                /\ Resolved(t)["convert"] = [quant_type |-> activation_type]
                /\ Resolved(t)["quant_type"] = InitQtype(t)

C2_Witness ==
    /\ Returned
    /\ add_qtype_converts
    /\ \E t \in Tensors :
        /\ ProducerSide(t)
        /\ ConsumerRequests(t) = {}
        /\ ConsumersOf(t) /= {}
        /\ Resolved(t)["convert"] = [quant_type |-> activation_type]

\* C3: a tensor with a producer-side request for T and consumer-side requests
\* for the same T from the operations R has a convert directive iff some
\* consumer is outside R; the directive is then exactly {quant_type: default
\* activation type, recv_nodes: consumers minus R}, and quant_type stays T.
C3_SameTypeConvertsTheRest ==
    (Returned /\ add_qtype_converts) =>
        \A x \in Tensors :
            (/\ ProducerSide(x)
             /\ ConsumerRequests(x) /= {}
             /\ \A req \in ConsumerRequests(x) : req[2] = InitQtype(x)) =>
                LET rest == ConsumersOf(x) \ RequestingNodes(x)
                IN  /\ Resolved(x)["quant_type"] = InitQtype(x)
                    /\ ("convert" \in DOMAIN Resolved(x)) <=> (rest /= {})
                    /\ rest /= {} =>
                         Resolved(x)["convert"] =
                             [quant_type |-> activation_type, recv_nodes |-> rest]

\* Scenario C: X feeds P and Q, only P requests X's own type
C3_Witness ==
    /\ Returned
    /\ add_qtype_converts
    /\ ProducerSide("X")
    /\ ConsumerRequests("X") = {<<"P", InitQtype("X")>>}
    /\ Resolved("X")["convert"] =
           [quant_type |-> activation_type, recv_nodes |-> {"Q"}]

\* the other case of C3: every consumer requests the tensor's own type
C3_WitnessAllRequest ==
    /\ Returned
    /\ add_qtype_converts
    /\ \E x \in Tensors :
        /\ ProducerSide(x)
        /\ ConsumerRequests(x) /= {}
        /\ RequestingNodes(x) = ConsumersOf(x)
        /\ "convert" \notin DOMAIN Resolved(x)

\* C4: when two operations request the same tensor at different types the
\* resolver raises during its scan, whatever the order of the table, and no
\* table is returned.  The exception is the consumer conflict of line 190;
\* the scan's only other exception is the KeyError of line 164.
C4_ConflictAlwaysRaises ==
    (add_qtype_converts /\ \E x \in Tensors : ConflictingRequests(x)) =>
        /\ pc \in {"scan", "raised"}
        /\ pc = "raised" =>
             \/ err = "ValueError: consumers requesting different types"
             \/ err = "KeyError" /\ \E t \in DOMAIN init_overrides.map :
                                        t \notin DOMAIN producers

\* Q's output is scanned before P's and the conflict is raised
C4_Witness ==
    /\ pc = "raised"
    /\ err = "ValueError: consumers requesting different types"
    /\ ConflictingRequests("X")
    /\ init_overrides.keys = <<"YQ", "YP">>

C4_WitnessOtherOrder ==
    /\ pc = "raised"
    /\ err = "ValueError: consumers requesting different types"
    /\ ConflictingRequests("X")
    /\ init_overrides.keys = <<"YP", "YQ">>

NodeOfType(op) == GraphNodes[CHOOSE i \in DOMAIN GraphNodes : GraphNodes[i].op_type = op]

SigmoidOut == NodeOfType("Sigmoid").output[1]

\* Scenario A: the Sigmoid output's initial override is {quant_type: QUInt16}
ScenarioA ==
    /\ SigmoidOut \in DOMAIN init_overrides.map
    /\ init_overrides.map[SigmoidOut] = <<[quant_type |-> "QUInt16"]>>

PinnedSigmoidEntry ==
    [quant_type |-> "QUInt16", scale |-> <<1, 65536>>, zero_point |-> 0]

\* C5 (as claimed): in Scenario A, for every default activation type and with
\* resolution enabled or disabled, the resolved entry of the Sigmoid output
\* is exactly {quant_type: QUInt16, scale: 1/65536, zero_point: 0}.
C5_SigmoidEntryExact ==
    (Returned /\ ScenarioA) =>
        tensor_quant_overrides.map[SigmoidOut] = <<PinnedSigmoidEntry>>

\* C5 (amended): in Scenario A the resolved entry always has quant_type
\* QUInt16, scale 1/65536, zero_point 0 and no other field except possibly
\* convert; it has no convert when resolution is disabled, or when the default
\* activation type is QUInt16 and no operation requests the output.
C5_SigmoidEntryAmended ==
    (Returned /\ ScenarioA) =>
        LET e == Resolved(SigmoidOut)
        IN  /\ Len(tensor_quant_overrides.map[SigmoidOut]) = 1
            /\ [k \in DOMAIN e \ {"convert"} |-> e[k]] = PinnedSigmoidEntry
            /\ (\/ ~add_qtype_converts
                \/ /\ activation_type = "QUInt16"
                   /\ ConsumerRequests(SigmoidOut) = {})
                  => e = PinnedSigmoidEntry

C5_Witness ==
    /\ Returned
    /\ ScenarioA
    /\ add_qtype_converts
    /\ activation_type = "QUInt16"
    /\ Resolved(SigmoidOut) = PinnedSigmoidEntry

\* the case that refutes the claim as made: resolution enabled, another default
C5_WitnessConvert ==
    /\ Returned
    /\ ScenarioA
    /\ add_qtype_converts
    /\ "convert" \in DOMAIN Resolved(SigmoidOut)
    /\ Resolved(SigmoidOut)["convert"] = [quant_type |-> "QUInt8"]
    /\ Resolved(SigmoidOut)["scale"] = <<1, 65536>>

LayerNorm == NodeOfType("LayerNormalization")

\* some non-parameter input of node n is effectively a 16-bit type
HasWideActivation(n) ==
    \E i \in DOMAIN n.input :
        /\ n.input[i] \notin DOMAIN name_to_initializer
        /\ _get_input_activation_qtype(tensor_quant_overrides, n.input[i],
                                       n.name, activation_type) \in Q16_TYPES

\* the caller gave t no quant_type and no symmetric
NoUserWeightOverride(t) ==
    \/ t \notin DOMAIN init_overrides.map
    \/ /\ Len(init_overrides.map[t]) = 1
       /\ "quant_type" \notin DOMAIN init_overrides.map[t][1]
       /\ "symmetric" \notin DOMAIN init_overrides.map[t][1]

Promoted(t) ==
    /\ t \in DOMAIN tensor_quant_overrides.map
    /\ tensor_quant_overrides.map[t] =
           <<[quant_type |-> weight_type, symmetric |-> (weight_type = "QInt8")]>>

\* t's entry is what the caller gave: none, or the same records
AsGiven(t) ==
    IF t \in DOMAIN init_overrides.map
    THEN /\ t \in DOMAIN tensor_quant_overrides.map
         /\ tensor_quant_overrides.map[t] = init_overrides.map[t]
    ELSE t \notin DOMAIN tensor_quant_overrides.map

\* positions of n's parameter inputs, and the first two of them
ParamPositions(n) == {i \in DOMAIN n.input : n.input[i] \in DOMAIN name_to_initializer}

FirstTwoParams(n) ==
    {i \in ParamPositions(n) : Cardinality({j \in ParamPositions(n) : j < i}) < 2}

\* C6 (as claimed): for a LayerNormalization with an 8-bit weight type and a
\* 16-bit non-parameter input, the scale and the bias (the first two parameter
\* inputs) without user quant_type/symmetric get {quant_type: weight type,
\* symmetric: weight type is QInt8}; no later parameter input is promoted.
C6_ScaleAndBiasPromoted ==
    (Returned /\ weight_type \in Q8_TYPES /\ HasWideActivation(LayerNorm)) =>
        \A i \in ParamPositions(LayerNorm) :
            NoUserWeightOverride(LayerNorm.input[i]) =>
                IF i \in FirstTwoParams(LayerNorm)
                THEN Promoted(LayerNorm.input[i])
                ELSE AsGiven(LayerNorm.input[i])

\* C6 (amended): the rule goes through the operation's first two inputs
\* (positions 0 and 1: the data input and the scale): each of them that is a
\* parameter without user quant_type/symmetric gets {quant_type: weight type,
\* symmetric: weight type is QInt8}; a parameter at position 2 or later (the
\* bias) is not promoted.
C6_FirstTwoInputsPromoted ==
    (Returned /\ weight_type \in Q8_TYPES /\ HasWideActivation(LayerNorm)) =>
        \A i \in ParamPositions(LayerNorm) :
            NoUserWeightOverride(LayerNorm.input[i]) =>
                IF i <= 2
                THEN Promoted(LayerNorm.input[i])
                ELSE AsGiven(LayerNorm.input[i])

C6_Witness ==
    /\ Returned
    /\ weight_type = "QInt8"
    /\ HasWideActivation(LayerNorm)
    /\ NoUserWeightOverride("S")
    /\ NoUserWeightOverride("B")
    /\ tensor_quant_overrides.map["S"] = <<[quant_type |-> "QInt8", symmetric |-> TRUE]>>
    /\ "B" \notin DOMAIN tensor_quant_overrides.map

\* C7 (as claimed): a tensor with no entry in the initial table that no
\* operator-policy rule touches has no entry in the resolved table.
C7_NoSpuriousEntry ==
    Returned =>
        \A t \in Tensors :
            (t \notin DOMAIN init_overrides.map /\ t \notin policy_touched) =>
                t \notin DOMAIN tensor_quant_overrides.map

\* C7 (amended): a tensor with no entry in the initial table that no
\* operator-policy rule touches and for which the resolver records no
\* consumer-side request has no entry in the resolved table.
C7_NoSpuriousEntryUnlessRequested ==
    Returned =>
        \A t \in Tensors :
            (/\ t \notin DOMAIN init_overrides.map
             /\ t \notin policy_touched
             /\ (~add_qtype_converts \/ ConsumerRequests(t) = {})) =>
                t \notin DOMAIN tensor_quant_overrides.map

\* the resolver gave a requested tensor a new entry and left the others alone
C7_Witness ==
    /\ Returned
    /\ add_qtype_converts
    /\ \E t \in Tensors :
        /\ t \notin DOMAIN init_overrides.map
        /\ ConsumerRequests(t) /= {}
        /\ t \in DOMAIN tensor_quant_overrides.map
    /\ \E t \in DOMAIN value_infos :
        /\ t \notin DOMAIN init_overrides.map
        /\ t \notin policy_touched
        /\ ConsumerRequests(t) = {}
        /\ t \notin DOMAIN tensor_quant_overrides.map

\* C8 (as claimed): an entry with more than one record makes the core raise
\* as soon as it meets it: the resolver's scan never gets past such an entry,
\* and no policy rule looks up the effective type of a tensor with such an
\* entry and returns.
C8_MultiRecordAlwaysRaises ==
    /\ (add_qtype_converts /\ pc \in {"process", "policy", "done"}) =>
           \A t \in DOMAIN init_overrides.map : Len(init_overrides.map[t]) <= 1
    /\ (Returned /\ weight_type \in Q8_TYPES) =>
           \A i \in DOMAIN GraphNodes :
               GraphNodes[i].op_type \in {"MatMul", "LayerNormalization"} =>
                   \A x \in Range(GraphNodes[i].input) \ DOMAIN name_to_initializer :
                       x \in DOMAIN tensor_quant_overrides.map =>
                           Len(tensor_quant_overrides.map[x]) <= 1

\* C9 (as claimed): a resolver step, whose only change to an entry that has a
\* convert directive is a call of _add_to_convert_recv_nodes, never takes the
\* converted type away from a consumer that saw it.
C9_ConvertOnlyWidens ==
    [][(pc = "process" /\ pc' /= "raised") =>
          \A t \in DOMAIN tensor_quant_overrides.map : \A n \in ConsumersOf(t) :
              (/\ "convert" \in DOMAIN Resolved(t)
               /\ _get_input_activation_qtype(tensor_quant_overrides, t, n,
                      activation_type) = Resolved(t)["convert"]["quant_type"])
              => _get_input_activation_qtype(tensor_quant_overrides', t, n,
                      activation_type)
                   = tensor_quant_overrides'.map[t][1]["convert"]["quant_type"]]_vars

ConflictErrors ==
    {"ValueError: consumers requesting different types",
     "ValueError: multiple types",
     "ValueError: converts the type for consumers",
     "AssertionError"}

\* a quantizable tensor that is no parameter and that no operation produces
IsGraphInput(t) ==
    /\ t \in DOMAIN value_infos
    /\ t \notin DOMAIN name_to_initializer
    /\ t \notin DOMAIN producers

\* C10 (as claimed): with single-record entries and resolution enabled, an
\* override on a graph input does not abort resolution: the call returns, or
\* raises a conflict error only.
C10_GraphInputOverrideDoesNotAbort ==
    (/\ add_qtype_converts
     /\ \A t \in DOMAIN init_overrides.map : Len(init_overrides.map[t]) = 1
     /\ \E t \in DOMAIN init_overrides.map : IsGraphInput(t)
     /\ pc = "raised")
    => err \in ConflictErrors

====
